---- MODULE Spec2Model ----
(***************************************************************************)
(* ModelsDict (OpenPNM/Base/__ModelsDict__.py): an OrderedDict of          *)
(* GenericModel entries attached to a master object.  The state is the     *)
(* ordered dictionary itself, the master's property store, and the outcome *)
(* of the most recent call (exception raised, logger lines).               *)
(***************************************************************************)
EXTENDS Integers, Sequences, FiniteSets, TLC

(* ---------------------------------------------------------------------- *)
(* Input domains                                                           *)
(* ---------------------------------------------------------------------- *)

\* Property names used as dictionary keys (the docstring example's names).
PropNames == {"pore.seed", "throat.seed", "throat.length"}

\* Model functions of the model library that callers hand to add / put.
Models == {"random"}

\* Model functions whose call raises an exception.
RaisingModels == {"broken"}

\* Python's None.
None == "None"

\* regen_mode strings callers pass: the four documented ones and one that
\* add does not recognise.
RegenModes == {"static", "constant", "deferred", "on_demand", "normal"}

\* Longest explicit props list handed to regenerate.
MaxProps == 2

\* Largest target index handed to reorder.
MaxIdx == 2

\* Class names of the master objects a ModelsDict is attached to.
MasterTypes == {"GenericNetwork", "GenericGeometry", "GenericPhase", "GenericPhysics"}

VARIABLES
    models,       \* the OrderedDict: sequence of [k |-> key, v |-> GenericModel]
    master,       \* self._master's items: PropNames -> value
    master_type,  \* class of self._master
    last,         \* the most recent call
    raised,       \* exception the most recent call raised, or "none"
    log           \* logger lines the most recent call emitted

vars == <<models, master, master_type, last, raised, log>>

(* ---------------------------------------------------------------------- *)
(* Python built-ins used by the class                                      *)
(* ---------------------------------------------------------------------- *)

\* dict.update(**other): items of other override items of d.
dict_update(d, other) ==
    [x \in (DOMAIN d) \cup (DOMAIN other) |->
        IF x \in DOMAIN other THEN other[x] ELSE d[x]]

\* x in list
list_contains(l, x) == \E i \in 1..Len(l) : l[i] = x

\* index of the first occurrence of x in l (x must occur)
list_index(l, x) == CHOOSE i \in 1..Len(l) : l[i] = x /\ \A j \in 1..(i-1) : l[j] # x

\* list.remove(x): drops the first occurrence; the caller checks presence
\* (Python raises ValueError when x is absent).
list_remove(l, x) ==
    LET i == list_index(l, x)
    IN  SubSeq(l, 1, i-1) \o SubSeq(l, i+1, Len(l))

\* list.insert(i, x) with 0-based i: negative i counts from the end, and the
\* position is clamped into 0..len(l).
list_insert(l, i, x) ==
    LET n == Len(l)
        j == IF i < 0 THEN (IF i + n < 0 THEN 0 ELSE i + n)
             ELSE (IF i > n THEN n ELSE i)
    IN  SubSeq(l, 1, j) \o <<x>> \o SubSeq(l, j+1, n)

\* list(self.keys())
keys(d) == [i \in 1..Len(d) |-> d[i].k]

\* self[item]
getitem(d, key) == d[CHOOSE i \in 1..Len(d) : d[i].k = key].v

\* __setitem__ that deletes an existing key first, so that every assignment
\* lands at the end.
OrderedDict_setitem_last(d, key, value) ==
    LET NotKey(item) == item.k # key
    IN  Append(SelectSeq(d, NotKey), [k |-> key, v |-> value])

\* OrderedDict.__setitem__: an existing key keeps its position, a new key is
\* appended.
OrderedDict_setitem(d, key, value) ==
    IF list_contains(keys(d), key)
    THEN [i \in 1..Len(d) |-> IF d[i].k = key THEN [k |-> key, v |-> value] ELSE d[i]]
    ELSE Append(d, [k |-> key, v |-> value])

\* move_to_end(key, last=False): the item becomes the first one.
move_to_end_first(d, key) ==
    LET i == CHOOSE i \in 1..Len(d) : d[i].k = key
    IN  <<d[i]>> \o SubSeq(d, 1, i-1) \o SubSeq(d, i+1, Len(d))

\* OrderedDict.move_to_end(key): the item becomes the last one.
move_to_end(d, key) ==
    LET i == CHOOSE i \in 1..Len(d) : d[i].k = key
    IN  SubSeq(d, 1, i-1) \o SubSeq(d, i+1, Len(d)) \o <<d[i]>>

(* ---------------------------------------------------------------------- *)
(* GenericModel and ModelsDict.__setitem__                                 *)
(* ---------------------------------------------------------------------- *)

\* What a library model returns when called; the library is external, so the
\* value is a token naming the model that produced it.
ModelResult(m) == [value_of |-> m]

\* A master item nobody has written yet.
NoValue == [value_of |-> None]

\* GenericModel.regenerate: self['model'](**self).  Whatever the model
\* raises propagates; nothing in the class catches it.
GenericModel_regenerate(entry) == ModelResult(entry["model"])
GenericModel_regenerate_raises(entry) == entry["model"] \in RaisingModels

\* ModelsDict.__setitem__: temp = GenericModel(propname=propname, model=None);
\* temp.update(**model); OrderedDict.__setitem__(propname, temp)
setitem(d, propname, model) ==
    LET temp == dict_update([propname |-> propname, model |-> None], model)
    IN  OrderedDict_setitem(d, propname, temp)

(* ---------------------------------------------------------------------- *)
(* Initial state                                                           *)
(* ---------------------------------------------------------------------- *)

Init ==
    /\ models = <<>>
    /\ master = [p \in PropNames |-> NoValue]
    /\ master_type = "GenericGeometry"
    /\ last = [op |-> "init"]
    /\ raised = "none"
    /\ log = <<>>

(* ---------------------------------------------------------------------- *)
(* Direct item assignment: models[propname] = spec                         *)
(* ---------------------------------------------------------------------- *)

\* Raw specifications callers assign directly; each carries the model and
\* its regen_mode, and one carries a 'propname' item of its own.
RawSpecs ==
    {[model |-> m, regen_mode |-> "static"] : m \in Models}
    \cup {[propname |-> "throat.seed", model |-> m, regen_mode |-> "static"] : m \in Models}

put(propname, spec) ==
    /\ models' = setitem(models, propname, spec)
    /\ last' = [op |-> "put", propname |-> propname, spec |-> spec]
    /\ raised' = "none"
    /\ log' = <<>>
    /\ UNCHANGED <<master, master_type>>

(* ---------------------------------------------------------------------- *)
(* add                                                                     *)
(* ---------------------------------------------------------------------- *)

\* [item.__name__ for item in self.__class__.__mro__]: self is the
\* ModelsDict, declared as class ModelsDict(OrderedDict).
self_type == {"ModelsDict", "OrderedDict", "dict", "object"}

\* "Determine object type, and assign associated objects": the if/elif chain
\* over self_type.  Object references are written as the expressions the
\* code evaluates.
context ==
    IF "GenericGeometry" \in self_type
    THEN [network |-> "self._net", phase |-> None, geometry |-> "self", physics |-> None]
    ELSE IF "GenericPhase" \in self_type
    THEN [network |-> "self._net", phase |-> "self", geometry |-> None, physics |-> None]
    ELSE IF "GenericPhysics" \in self_type
    THEN [network |-> "self._net", phase |-> "self._phases[0]", geometry |-> None,
          physics |-> "self"]
    ELSE [network |-> "self", phase |-> None, geometry |-> None, physics |-> None]

\* Extra keyword arguments callers pass to add.
NoKwargs == [x \in {} |-> None]
Kwargs == {NoKwargs}

\* f = {'model': model, 'network': network, ...}; f.update(**kwargs)
build_f(model, regen_mode, kwargs) ==
    dict_update([model |-> model, network |-> context.network, phase |-> context.phase,
                 geometry |-> context.geometry, physics |-> context.physics,
                 regen_mode |-> regen_mode], kwargs)

\* f(): f is the plain dict built above, and calling a dict raises
\* TypeError before anything is stored.
call_f(f) == [raised |-> "TypeError", value |-> NoValue]

\* add_models whose last test is a plain else: any mode but constant stores
\* the model.
add_models_else(d, propname, f, regen_mode) ==
    IF regen_mode = "constant" THEN d ELSE setitem(d, propname, f)

\* The three `if regen_mode ...` statements at the end of add.
add_models(d, propname, f, regen_mode) ==
    IF regen_mode = "static" THEN setitem(d, propname, f)
    ELSE IF regen_mode \in {"deferred", "on_demand"} THEN setitem(d, propname, f)
    ELSE d

\* add_master without the regen_mode == 'constant' test and with f's model
\* called directly: every add computes at once.
add_master_eager(mst, propname, f, regen_mode) ==
    [mst EXCEPT ![propname] = ModelResult(f["model"])]

add_master(mst, propname, f, regen_mode) ==
    IF regen_mode = "constant" /\ call_f(f).raised = "none"
    THEN [mst EXCEPT ![propname] = call_f(f).value]
    ELSE mst

add_raised(f, regen_mode) ==
    IF regen_mode = "constant" THEN call_f(f).raised ELSE "none"

add(propname, model, regen_mode, kwargs) ==
    LET f == build_f(model, regen_mode, kwargs)
    IN  /\ models' = add_models(models, propname, f, regen_mode)
        /\ master' = add_master(master, propname, f, regen_mode)
        /\ raised' = add_raised(f, regen_mode)
        /\ last' = [op |-> "add", propname |-> propname, model |-> model,
                    regen_mode |-> regen_mode, kwargs |-> kwargs]
        /\ log' = <<>>
        /\ UNCHANGED master_type

(* ---------------------------------------------------------------------- *)
(* regenerate                                                              *)
(* ---------------------------------------------------------------------- *)

\* Lists of distinct property names, at most MaxProps long.
PropLists ==
    {l \in UNION {[1..n -> PropNames] : n \in 0..MaxProps} :
        \A i, j \in 1..Len(l) : i # j => l[i] # l[j]}

\* The props argument: a string ('' is the default) or a list of strings.
DefaultProps == [type |-> "str", str |-> ""]
PropsArgs ==
    {DefaultProps}
    \cup {[type |-> "str", str |-> p] : p \in PropNames}
    \cup {[type |-> "list", list |-> l] : l \in PropLists}

Modes == {"inclusive", "exclude"}

\* props == ''
is_default(props) == props.type = "str" /\ props.str = ""

\* for item in props: if self[item]['regen_mode'] == 'on_demand':
\* props.remove(item).  The loop walks the very list it shrinks: i is the
\* iterator's 0-based position, which advances after every item.
RECURSIVE remove_on_demand(_, _, _)
remove_on_demand(d, props, i) ==
    IF i >= Len(props) THEN props
    ELSE LET item == props[i + 1]
         IN  IF getitem(d, item)["regen_mode"] = "on_demand"
             THEN remove_on_demand(d, list_remove(props, item), i + 1)
             ELSE remove_on_demand(d, props, i + 1)

\* select_props that ignores the props given and always takes the default
\* selection.
select_props_default(d, props) == remove_on_demand(d, keys(d), 0)

\* if props == '': ... elif type(props) == str: props = [props]
select_props(d, props) ==
    IF is_default(props) THEN remove_on_demand(d, keys(d), 0)
    ELSE IF props.type = "str" THEN <<props.str>>
    ELSE props.list

\* for item in props: temp.remove(item) -- list.remove raises ValueError on
\* an item that is not (or no longer) in temp.
RECURSIVE exclude_loop(_, _, _)
exclude_loop(temp, props, i) ==
    IF i > Len(props) THEN [raised |-> "none", list |-> temp]
    ELSE IF ~list_contains(temp, props[i]) THEN [raised |-> "ValueError", list |-> temp]
    ELSE exclude_loop(list_remove(temp, props[i]), props, i + 1)

\* apply_mode with the mode == 'exclude' branch left out: the names given
\* are the ones regenerated.
apply_mode_inclusive(d, props, mode) == [raised |-> "none", list |-> props]

\* if mode == 'exclude': temp = list(self.keys()); ...; props = temp
apply_mode(d, props, mode) ==
    IF mode = "exclude" THEN exclude_loop(keys(d), props, 1)
    ELSE [raised |-> "none", list |-> props]

\* logger.info('Models are being recalculated in the following order: ')
log_header == [level |-> "info", text |-> "Models are being recalculated in the following order: "]

\* count of the info lines already written for regenerated items
log_count(lg) == Cardinality({i \in 1..Len(lg) : "count" \in DOMAIN lg[i]})

\* for item in props: if item in list(self.keys()): self._master[item] =
\* self[item].regenerate(); logger.info(str(count)+' : '+item); count += 1
\* else: logger.warning(...)
\* A model that raises ends the loop there: the assignment and the info
\* line of that item, and every later item, are not reached.
RECURSIVE regenerate_loop(_, _, _, _, _)
regenerate_loop(d, props, i, mst, lg) ==
    IF i > Len(props) THEN [raised |-> "none", master |-> mst, log |-> lg]
    ELSE LET item == props[i]
         IN  IF list_contains(keys(d), item)
             THEN IF GenericModel_regenerate_raises(getitem(d, item))
                  THEN [raised |-> "Exception", master |-> mst, log |-> lg]
                  ELSE regenerate_loop(d, props, i + 1,
                      [mst EXCEPT ![item] = GenericModel_regenerate(getitem(d, item))],
                      Append(lg, [level |-> "info", count |-> log_count(lg), item |-> item]))
             ELSE regenerate_loop(d, props, i + 1, mst,
                      Append(lg, [level |-> "warning", item |-> item]))

\* regenerate_master that undoes the loop's writes when a model raised.
regenerate_master_rollback(selected, done, mst) ==
    IF selected.raised = "none" /\ done.raised = "none" THEN done.master ELSE mst

\* the master when regenerate ends (normally or by an exception): what the
\* loop wrote stays written
regenerate_master(selected, done, mst) ==
    IF selected.raised = "none" THEN done.master ELSE mst

\* regenerate that looks every selected name up without the `item in
\* self.keys()` test: a name that is not a key ends the call with KeyError.
regenerate_strict(props, mode) ==
    LET selected == apply_mode(models, select_props(models, props), mode)
        absent == \E i \in 1..Len(selected.list) : ~list_contains(keys(models), selected.list[i])
        done == regenerate_loop(models, selected.list, 1, master, <<log_header>>)
    IN  /\ raised' = IF selected.raised # "none" THEN selected.raised
                     ELSE IF absent THEN "KeyError" ELSE done.raised
        /\ master' = IF selected.raised = "none" /\ ~absent THEN done.master ELSE master
        /\ log' = IF selected.raised = "none" /\ ~absent THEN done.log ELSE <<>>
        /\ last' = [op |-> "regenerate", props |-> props, mode |-> mode]
        /\ UNCHANGED <<models, master_type>>

regenerate(props, mode) ==
    LET selected == apply_mode(models, select_props(models, props), mode)
        done == regenerate_loop(models, selected.list, 1, master, <<log_header>>)
    IN  /\ raised' = IF selected.raised = "none" THEN done.raised ELSE selected.raised
        /\ master' = regenerate_master(selected, done, master)
        /\ log' = IF selected.raised = "none" THEN done.log ELSE <<>>
        /\ last' = [op |-> "regenerate", props |-> props, mode |-> mode]
        /\ UNCHANGED <<models, master_type>>

(* ---------------------------------------------------------------------- *)
(* reorder                                                                 *)
(* ---------------------------------------------------------------------- *)

\* new_order dictionaries, as their items in iteration order: property
\* names (distinct, being dict keys) with a target index each.
NewOrders ==
    {s \in UNION {[1..n -> [k : PropNames, v : 0..MaxIdx]] : n \in 0..Cardinality(PropNames)} :
        \A i, j \in 1..Len(s) : i # j => s[i].k # s[j].k}

\* for item in new_order: order.remove(item)
RECURSIVE remove_loop(_, _, _)
remove_loop(order, new_order, i) ==
    IF i > Len(new_order) THEN [raised |-> "none", list |-> order]
    ELSE IF ~list_contains(order, new_order[i].k) THEN [raised |-> "ValueError", list |-> order]
    ELSE remove_loop(list_remove(order, new_order[i].k), new_order, i + 1)

\* dict[key] = value on a plain dict kept as its items in insertion order:
\* a repeated key keeps its place and takes the new value.
dict_setitem(d, key, value) ==
    IF \E i \in 1..Len(d) : d[i].k = key
    THEN [i \in 1..Len(d) |-> IF d[i].k = key THEN [k |-> key, v |-> value] ELSE d[i]]
    ELSE Append(d, [k |-> key, v |-> value])

\* inv_dict = {v: k for k, v in new_order.items()}, kept as its items in
\* iteration order: a dict iterates in insertion order.
RECURSIVE inv_dict(_, _)
inv_dict(new_order, n) ==
    IF n = 0 THEN <<>>
    ELSE dict_setitem(inv_dict(new_order, n - 1), new_order[n].v, new_order[n].k)

\* for item in inv_dict: order.insert(item, inv_dict[item])
RECURSIVE insert_loop(_, _, _)
insert_loop(order, items, i) ==
    IF i > Len(items) THEN order
    ELSE insert_loop(list_insert(order, items[i].k, items[i].v), items, i + 1)

\* for item in order: self.move_to_end(item)
RECURSIVE rebuild(_, _, _)
rebuild(d, order, i) ==
    IF i > Len(order) THEN d
    ELSE rebuild(move_to_end(d, order[i]), order, i + 1)

\* the local list `order` after the removals and the insertions
new_list(d, new_order) ==
    insert_loop(remove_loop(keys(d), new_order, 1).list,
                inv_dict(new_order, Len(new_order)), 1)

\* reorder that catches the ValueError of order.remove and goes on to move
\* the keys it has left in order.
reorder_partial(new_order) ==
    LET removed == remove_loop(keys(models), new_order, 1)
    IN  /\ raised' = removed.raised
        /\ models' = IF removed.raised = "none"
                     THEN rebuild(models, new_list(models, new_order), 1)
                     ELSE rebuild(models, removed.list, 1)
        /\ last' = [op |-> "reorder", new_order |-> new_order]
        /\ log' = <<>>
        /\ UNCHANGED <<master, master_type>>

reorder(new_order) ==
    LET removed == remove_loop(keys(models), new_order, 1)
    IN  /\ raised' = removed.raised
        /\ models' = IF removed.raised = "none"
                     THEN rebuild(models, new_list(models, new_order), 1)
                     ELSE models
        /\ last' = [op |-> "reorder", new_order |-> new_order]
        /\ log' = <<>>
        /\ UNCHANGED <<master, master_type>>

(* ---------------------------------------------------------------------- *)
(* Specification                                                           *)
(* ---------------------------------------------------------------------- *)

Next ==
    \/ \E p \in PropNames, s \in RawSpecs : put(p, s)
    \/ \E p \in PropNames, m \in Models, rm \in RegenModes, kw \in Kwargs : add(p, m, rm, kw)
    \/ \E props \in PropsArgs, mode \in Modes : regenerate(props, mode)
    \/ \E new_order \in NewOrders : reorder(new_order)

Spec == Init /\ [][Next]_vars

\* The operations taken one family at a time: building the dictionary (for
\* a master of any class), building and regenerating, building and
\* reordering.  regenerate never changes the dictionary and reorder never
\* reads the master, so each family reaches every dictionary order it needs.
InitAnyMaster ==
    /\ models = <<>>
    /\ master = [p \in PropNames |-> NoValue]
    /\ master_type \in MasterTypes
    /\ last = [op |-> "init"]
    /\ raised = "none"
    /\ log = <<>>

NextAdd ==
    \/ \E p \in PropNames, s \in RawSpecs : put(p, s)
    \/ \E p \in PropNames, m \in Models, rm \in RegenModes, kw \in Kwargs : add(p, m, rm, kw)

SpecAdd == InitAnyMaster /\ [][NextAdd]_vars

NextRegenerate ==
    \/ \E p \in PropNames, m \in Models, rm \in RegenModes, kw \in Kwargs : add(p, m, rm, kw)
    \/ \E props \in PropsArgs, mode \in Modes : regenerate(props, mode)

SpecRegenerate == Init /\ [][NextRegenerate]_vars

NextReorder ==
    \/ \E p \in PropNames, m \in Models, kw \in Kwargs : add(p, m, "static", kw)
    \/ \E new_order \in NewOrders : reorder(new_order)

SpecReorder == Init /\ [][NextReorder]_vars

\* Building with models that work and models that raise, and regenerating.
NextRaise ==
    \/ \E p \in PropNames, m \in Models \cup RaisingModels, kw \in Kwargs :
          add(p, m, "static", kw)
    \/ \E props \in PropsArgs, mode \in Modes : regenerate(props, mode)

SpecRaise == Init /\ [][NextRaise]_vars

(* ---------------------------------------------------------------------- *)
(* Properties                                                              *)
(* ---------------------------------------------------------------------- *)

StoredModes == {"static", "deferred", "on_demand"}

\* the property names of the per-item info lines of a log, in log order
IsItemLine(line) == "count" \in DOMAIN line
Invoked(lg) ==
    LET lines == SelectSeq(lg, IsItemLine)
    IN  [i \in 1..Len(lines) |-> lines[i].item]

Elems(l) == {l[i] : i \in 1..Len(l)}

\* the keys of d, in dictionary order, that belong to the set S
KeysIn(d, S) == LET In(key) == key \in S IN SelectSeq(keys(d), In)

\* the keys of d whose entry is not regenerated on demand only
RegularKeys(d) == {key \in Elems(keys(d)) : getitem(d, key)["regen_mode"] # "on_demand"}

\* the names an explicit props argument lists
Named(props) == IF props.type = "str" THEN {props.str} ELSE Elems(props.list)

\* master after the models of exactly the keys in S ran
MasterAfter(d, mst, S) ==
    [p \in PropNames |-> IF p \in S THEN ModelResult(getitem(d, p)["model"]) ELSE mst[p]]

\* C1: regenerate() with no arguments invokes exactly the entries that are
\* not on_demand, in dictionary order, writes each result into the master at
\* its key and leaves the master alone at every on_demand key -- for every
\* dictionary, adjacent on_demand entries included.
C1_DefaultRegenerate ==
    [][(last'.op = "regenerate" /\ is_default(last'.props) /\ last'.mode = "inclusive")
        => /\ raised' = "none"
           /\ Invoked(log') = KeysIn(models, RegularKeys(models))
           /\ master' = MasterAfter(models, master, RegularKeys(models))]_vars

\* C2: add(p, m, 'constant') does not raise, and on return master[p] holds
\* the value that invoking m produces.
C2_ConstantComputesNow ==
    [][(last'.op = "add" /\ last'.regen_mode = "constant")
        => /\ raised' = "none"
           /\ master'[last'.propname] = ModelResult(last'.model)]_vars

\* new_order names keys of d only, with distinct targets inside 0..len(d)-1
WellFormed(d, new_order) ==
    /\ \A i \in 1..Len(new_order) :
          /\ list_contains(keys(d), new_order[i].k)
          /\ new_order[i].v \in 0..(Len(d) - 1)
    /\ \A i, j \in 1..Len(new_order) : i # j => new_order[i].v # new_order[j].v

\* C3: after reorder(new_order) with distinct in-range targets every named
\* key sits at its target index, whatever order new_order lists its keys in
\* (the docstring's example is one such call).
C3_ReorderPlacesKeys ==
    [][(last'.op = "reorder" /\ WellFormed(models, last'.new_order))
        => /\ raised' = "none"
           /\ \A i \in 1..Len(last'.new_order) :
                 keys(models')[last'.new_order[i].v + 1] = last'.new_order[i].k]_vars

\* the keys a regenerate call with explicit props selects
Selected(d, props, mode) ==
    IF mode = "exclude" THEN Elems(keys(d)) \ Named(props)
    ELSE Elems(keys(d)) \cap Named(props)

\* C4: regenerate with an explicit list of keys invokes the selected models,
\* and writes the master, in dictionary order, not in the order of the list.
C4_ExplicitInRegistryOrder ==
    [][(last'.op = "regenerate" /\ last'.props.type = "list" /\ raised' = "none")
        => Invoked(log') = KeysIn(models, Selected(models, last'.props, last'.mode))]_vars

\* The context the master's class calls for.  The master is self._master;
\* its network is its _net and its phases are its _phases.
ExpectedContext(type) ==
    IF type = "GenericGeometry"
    THEN [network |-> "self._master._net", phase |-> None, geometry |-> "self._master",
          physics |-> None]
    ELSE IF type = "GenericPhase"
    THEN [network |-> "self._master._net", phase |-> "self._master", geometry |-> None,
          physics |-> None]
    ELSE IF type = "GenericPhysics"
    THEN [network |-> "self._master._net", phase |-> "self._master._phases[0]",
          geometry |-> None, physics |-> "self._master"]
    ELSE [network |-> "self._master", phase |-> None, geometry |-> None, physics |-> None]

\* C5: the entry add stores carries the context the master's role calls
\* for: geometry host -> network = master's network, geometry = master;
\* phase host -> network, phase = master; physics host -> network, first
\* associated phase, physics = master; otherwise network = master; every
\* other context field is unset.
C5_ContextFollowsMasterRole ==
    [][(last'.op = "add" /\ last'.regen_mode \in StoredModes)
        => LET entry == getitem(models', last'.propname)
               want == ExpectedContext(master_type)
           IN  /\ entry["network"] = want.network
               /\ entry["phase"] = want.phase
               /\ entry["geometry"] = want.geometry
               /\ entry["physics"] = want.physics]_vars

\* C6: regenerate in 'exclude' mode with props naming a key that is not in
\* the dictionary does not raise; the absent key is skipped and every
\* dictionary key that props does not name is regenerated.
C6_ExcludeSkipsAbsentKey ==
    [][(/\ last'.op = "regenerate"
        /\ last'.mode = "exclude"
        /\ ~is_default(last'.props)
        /\ Named(last'.props) \ Elems(keys(models)) # {})
        => /\ raised' = "none"
           /\ Elems(Invoked(log')) = Elems(keys(models)) \ Named(last'.props)
           /\ master' = MasterAfter(models, master, Elems(keys(models)) \ Named(last'.props))]_vars

\* C7: regenerate with props defaulted and mode='exclude' invokes no
\* on_demand entry.
C7_DefaultExcludeSkipsOnDemand ==
    [][(last'.op = "regenerate" /\ is_default(last'.props) /\ last'.mode = "exclude"
        /\ raised' = "none")
        => \A key \in Elems(Invoked(log')) : key \in RegularKeys(models)]_vars

\* C8: every value in the dictionary is an entry whose propname item equals
\* the key it is stored under.
C8_PropnameEqualsKey ==
    \A i \in 1..Len(models) : models[i].v["propname"] = models[i].k

\* new_order maps every key of d to its current index
IsIdentity(d, new_order) ==
    /\ Len(new_order) = Len(d)
    /\ \A i \in 1..Len(new_order) :
          /\ new_order[i].v + 1 \in 1..Len(d)
          /\ keys(d)[new_order[i].v + 1] = new_order[i].k

\* C9: reorder with the identity mapping leaves the dictionary order
\* unchanged, for every size and every order in which the mapping lists its
\* keys.
C9_IdentityReorder ==
    [][(last'.op = "reorder" /\ IsIdentity(models, last'.new_order))
        => (raised' = "none" /\ keys(models') = keys(models))]_vars

NamesKeysOnly(d, new_order) ==
    \A i \in 1..Len(new_order) : list_contains(keys(d), new_order[i].k)

\* new_order has two equal targets, or a target outside 0..len(d)-1
Malformed(d, new_order) ==
    \/ \E i, j \in 1..Len(new_order) : i # j /\ new_order[i].v = new_order[j].v
    \/ \E i \in 1..Len(new_order) : new_order[i].v > Len(d) - 1

\* the position of key in the dictionary d
PositionOf(d, key) == list_index(keys(d), key)

\* C11: reorder whose new_order names present keys with two equal targets or
\* a target beyond the last index does not raise; the result holds the same
\* keys; a single named key with a target beyond the end lands last; keys
\* with equal targets appear in the order new_order lists them.
C11_MalformedTargets ==
    [][(last'.op = "reorder" /\ NamesKeysOnly(models, last'.new_order)
            /\ Malformed(models, last'.new_order))
        => /\ raised' = "none"
           /\ Len(models') = Len(models)
           /\ Elems(keys(models')) = Elems(keys(models))
           /\ (Len(last'.new_order) = 1
                  => keys(models')[Len(models')] = last'.new_order[1].k)
           /\ \A i, j \in 1..Len(last'.new_order) :
                 (i < j /\ last'.new_order[i].v = last'.new_order[j].v)
                    => PositionOf(models', last'.new_order[i].k)
                          < PositionOf(models', last'.new_order[j].k)]_vars

\* props names exactly the one key p, as the bare string or as a one-item list
NamesOnly(props, p) == ~is_default(props) /\ Named(props) = {p}

C13_ConstantNotAKey ==
    [][(last'.op = "add" /\ last'.regen_mode = "constant")
        => ~list_contains(keys(models'), last'.propname)]_vars

\* the names of the warning lines of a log
Warned(lg) == {lg[i].item : i \in {j \in 1..Len(lg) : lg[j].level = "warning"}}

\* C14: an inclusive regenerate whose props (a bare string or a list) names
\* something that is not a key does not raise, warns about each such name and
\* leaves the master alone there, and still runs every named key that is in
\* the dictionary.
C14_AbsentKeySkipped ==
    [][(last'.op = "regenerate" /\ last'.mode = "inclusive" /\ ~is_default(last'.props)
            /\ Named(last'.props) \ Elems(keys(models)) # {})
        => LET absent == Named(last'.props) \ Elems(keys(models))
               present == Named(last'.props) \cap Elems(keys(models))
           IN  /\ raised' = "none"
               /\ Warned(log') = absent
               /\ \A p \in absent : master'[p] = master[p]
               /\ Elems(Invoked(log')) = present
               /\ master' = MasterAfter(models, master, present)]_vars

\* a list naming an absent key first and a present key second: the first was
\* warned about and left unwritten, the second was regenerated
C14_Witness ==
    /\ last.op = "regenerate" /\ last.mode = "inclusive" /\ raised = "none"
    /\ last.props.type = "list" /\ Len(last.props.list) = 2
    /\ ~list_contains(keys(models), last.props.list[1])
    /\ list_contains(keys(models), last.props.list[2])
    /\ Warned(log) = {last.props.list[1]}
    /\ Invoked(log) = <<last.props.list[2]>>
    /\ master[last.props.list[1]] = NoValue
    /\ master[last.props.list[2]] # NoValue

\* C15: regenerate(props=['p']) in inclusive mode with p a key of the
\* dictionary invokes p's model only and writes master at p only; every other
\* master item and the whole dictionary are as before.
C15_InclusiveOne ==
    [][(last'.op = "regenerate" /\ last'.mode = "inclusive"
            /\ \E p \in Elems(keys(models)) : NamesOnly(last'.props, p))
        => LET p == CHOOSE p \in Elems(keys(models)) : NamesOnly(last'.props, p)
           IN  /\ raised' = "none"
               /\ Invoked(log') = <<p>>
               /\ master'[p] = ModelResult(getitem(models, p)["model"])
               /\ \A q \in PropNames \ {p} : master'[q] = master[q]
               /\ models' = models]_vars

\* an inclusive call naming the second key of three static entries wrote that
\* key's master item and no other
C15_Witness ==
    /\ last.op = "regenerate" /\ last.mode = "inclusive" /\ raised = "none"
    /\ Len(models) = 3
    /\ \A i \in 1..3 : models[i].v["regen_mode"] = "static"
    /\ last.props = [type |-> "list", list |-> <<keys(models)[2]>>]
    /\ Invoked(log) = <<keys(models)[2]>>
    /\ master[keys(models)[2]] # NoValue
    /\ master[keys(models)[1]] = NoValue
    /\ master[keys(models)[3]] = NoValue

\* the model a put or add call asks to store
AssignedModel(call) == IF call.op = "put" THEN call.spec["model"] ELSE call.model

\* C16: a put, or an add in a stored mode, to a name already in the
\* dictionary replaces the entry where the name stands, order and other
\* entries untouched; to a new name it appends the entry at the end.
C16_AssignKeepsPosition ==
    [][(last'.op = "put" \/ (last'.op = "add" /\ last'.regen_mode \in StoredModes))
        => LET p == last'.propname
           IN  /\ getitem(models', p)["model"] = AssignedModel(last')
               /\ getitem(models', p)["regen_mode"]
                     = (IF last'.op = "put" THEN last'.spec["regen_mode"] ELSE last'.regen_mode)
               /\ IF list_contains(keys(models), p)
                  THEN /\ keys(models') = keys(models)
                       /\ \A i \in 1..Len(models) : models[i].k # p => models'[i] = models[i]
                  ELSE /\ keys(models') = Append(keys(models), p)
                       /\ SubSeq(models', 1, Len(models)) = models]_vars

\* an add in deferred mode to the first of three keys: the entry was replaced
\* where it stood
C16_Witness ==
    /\ last.op = "add" /\ last.regen_mode = "deferred" /\ raised = "none"
    /\ Len(models) = 3
    /\ keys(models)[1] = last.propname
    /\ models[1].v["regen_mode"] = "deferred"
    /\ models[2].v["regen_mode"] = "static"

\* the list of names a regenerate call loops over, when selecting them raised
\* nothing
LoopList(d, props, mode) == apply_mode(d, select_props(d, props), mode)

\* the positions of l holding a key of d whose model raises
RaisingAt(d, l) ==
    {i \in 1..Len(l) : list_contains(keys(d), l[i])
                          /\ getitem(d, l[i])["model"] \in RaisingModels}

\* the first position of the set S of positions
FirstOf(S) == CHOOSE i \in S : \A j \in S : i <= j

\* C17: when the model of a selected key raises, regenerate ends with that
\* error at once; the master holds the results of the keys that came before
\* it in the loop and is as it was at the failing key and at every key after
\* it.
C17_RaisingModelStopsLoop ==
    [][(last'.op = "regenerate"
            /\ LoopList(models, last'.props, last'.mode).raised = "none"
            /\ RaisingAt(models, LoopList(models, last'.props, last'.mode).list) # {})
        => LET l == LoopList(models, last'.props, last'.mode).list
               f == FirstOf(RaisingAt(models, l))
               before == {l[j] : j \in 1..(f - 1)} \cap Elems(keys(models))
           IN  /\ raised' = "Exception"
               /\ Elems(Invoked(log')) = before
               /\ \A p \in before : master'[p] = ModelResult(getitem(models, p)["model"])
               /\ \A p \in PropNames \ before : master'[p] = master[p]]_vars

\* regenerate() over three keys whose second model raises: the first key was
\* written, the third was not reached
C17_Witness ==
    /\ last.op = "regenerate" /\ is_default(last.props) /\ last.mode = "inclusive"
    /\ raised = "Exception"
    /\ Len(models) = 3
    /\ models[2].v["model"] \in RaisingModels
    /\ models[3].v["model"] \notin RaisingModels
    /\ Invoked(log) = <<keys(models)[1]>>
    /\ master[keys(models)[1]] # NoValue
    /\ master[keys(models)[3]] = NoValue

\* the keys new_order names
NamedKeys(new_order) == {new_order[i].k : i \in 1..Len(new_order)}

\* C18: a reorder that returns normally only permutes the dictionary: the
\* same keys with the same entry under each, the master untouched, and the
\* keys new_order does not name in the same relative order as before.
C18_ReorderOnlyPermutes ==
    [][(last'.op = "reorder" /\ raised' = "none")
        => LET unnamed == Elems(keys(models)) \ NamedKeys(last'.new_order)
           IN  /\ Len(models') = Len(models)
               /\ Elems(keys(models')) = Elems(keys(models))
               /\ \A key \in Elems(keys(models)) : getitem(models', key) = getitem(models, key)
               /\ master' = master
               /\ KeysIn(models', unnamed) = KeysIn(models, unnamed)]_vars

\* one key of three moved to the front: the two keys not named follow it
C18_Witness ==
    /\ last.op = "reorder" /\ raised = "none"
    /\ Len(models) = 3
    /\ Len(last.new_order) = 1
    /\ last.new_order[1].v = 0
    /\ keys(models)[1] = last.new_order[1].k
    /\ keys(models)[1] = "throat.length"
    /\ keys(models)[2] = "pore.seed"
    /\ keys(models)[3] = "throat.seed"

\* C19: add with a regen_mode that is none of static, constant, deferred and
\* on_demand raises nothing and changes nothing: dictionary and master are as
\* before and no model is invoked.
C19_UnknownModeIsNoOp ==
    [][(last'.op = "add"
            /\ last'.regen_mode \notin {"static", "constant", "deferred", "on_demand"})
        => /\ raised' = "none"
           /\ models' = models
           /\ master' = master
           /\ Invoked(log') = <<>>]_vars

\* add of a new name in the mode 'normal' to a dictionary of two entries, one
\* of them regenerated before: the name is no key and has no master item
C19_Witness ==
    /\ last.op = "add" /\ last.regen_mode = "normal" /\ raised = "none"
    /\ Len(models) = 2
    /\ ~list_contains(keys(models), last.propname)
    /\ master[last.propname] = NoValue
    /\ master[keys(models)[1]] # NoValue

\* C20: reorder with a new_order naming something that is not a key ends with
\* an error and leaves the dictionary, order and entries, as it was.
C20_AbsentKeyRaises ==
    [][(last'.op = "reorder" /\ ~NamesKeysOnly(models, last'.new_order))
        => /\ raised' = "ValueError"
           /\ models' = models]_vars

\* a new_order naming the first of two keys and then an absent name: the
\* call raised after one removal and the two keys stand as they were built
C20_Witness ==
    /\ last.op = "reorder" /\ raised = "ValueError"
    /\ Len(models) = 2
    /\ Len(last.new_order) = 2
    /\ last.new_order[1].k = keys(models)[1]
    /\ ~list_contains(keys(models), last.new_order[2].k)

====
